---- MODULE Spec2Model ----
(***************************************************************************)
(* The proto runtime of angular-proto (core/src/lib/proto.ts and           *)
(* proto-ancestry.ts) as a state machine.                                  *)
(*                                                                         *)
(* A tree of elements (tree positions) is created and destroyed by the     *)
(* hosting framework.  Every element carries the ordered provider list of  *)
(* the directives attached to it (host directives first, the host last).   *)
(* Providers are resolved the way the framework's element injector does:   *)
(* a lookup walks from the element towards the root; of several non-multi  *)
(* providers of one token on one element the last one registered wins;     *)
(* multi providers of one token on one element are collected in order and  *)
(* shadow those of the elements above; a provider's factory runs on the    *)
(* first lookup that reaches it and its value is kept.                     *)
(*                                                                         *)
(* inject() needs an injection context, so the calls of the runtime        *)
(* (the initializer, state lookups) are made by the constructors of the    *)
(* directives of an element while the framework creates it, host           *)
(* directives first; an exception ends the construction of the element.    *)
(***************************************************************************)
EXTENDS Integers, Sequences, FiniteSets, TLC

\* ---------------------------------------------------------------- bounds
MaxElems == 3
MaxHooksPerProvider == 2
MaxSignals == 2
MaxDeepElems == 4

\* the input fields a host instance has at most
MaxInputs == 2

\* the elements of the trees of two-input instances
MaxFrameElems == 2

\* ---------------------------------------------------------------- kinds
Kinds == {"A", "B"}

NULL == <<>>

VARIABLES
  elems,    \* the elements created so far: [parent, provs, alive]
  node,     \* per (element, kind): the internal proto state of that provider
  ran,      \* per (element, kind): the hooks run for it, with the state each saw
  wrapped,  \* the host instances whose inputs were wrapped by controlledInput
  todo,     \* the calls the constructors of the element being created still make
  cur,      \* the initializer call in progress (pc = "idle": none)
  res,      \* how the call that has just completed ended: "handle" (a state
            \* handle returned), "existing" (line 247), "calledTwice" (line 242),
            \* "notInitialized" (line 228), "typeError", "nullInjector", "null"
  devMode,  \* isDevMode()
  env,      \* the injected value the contribution thunks read
  contrib,  \* per element and provider: the value its factory has returned
  input,    \* per host instance and input field: the input, a controlled
            \* value once wrapped
  after,    \* the framework's after-render callbacks: queue, log, count, phase
  defaults, \* per kind: the default configuration object given to createProto
  found,    \* what the last injectProtoAncestor / injectProtoParent has given
  effects,  \* the effects the hooks have created, and those due to run
  warned    \* the instances initState has warned about (console.warn)

vars == <<elems, node, ran, wrapped, todo, cur, res, devMode, env, contrib,
          input, after, defaults, found, effects, warned>>

\* MaxDeepElems, the bound of the deep-tree specification, is the larger one
NodeIds == (1..MaxDeepElems) \X Kinds

\* an input field: the host instance (named as the node of its element and
\* kind) and the position of the field among the instance's inputs
InputIds == NodeIds \X (1..MaxInputs)

Range(s) == {s[i] : i \in DOMAIN s}

InSeq(x, s) == \E i \in DOMAIN s : s[i] = x

RECURSIVE Reverse(_)
Reverse(s) == IF s = <<>> THEN <<>> ELSE Append(Reverse(Tail(s)), Head(s))

\* ------------------------------------------------------------ providers
\* One provider of an element's provider list.  State.provide() is the
\* group of providers of proto.ts:133-220 (internal state, public token,
\* PROTO_ANCESTRY_CHAIN, config fallback); Hooks.provide(h1..hn) is the one of
\* proto.ts:310-318; Config.provide(cfg) the pair of proto.ts:284-299.
EmptyCfg == [key \in {} |-> 0]

StateP(k) ==
  [type |-> "state", kind |-> k, n |-> 0, cfg |-> EmptyCfg, fn |-> FALSE,
   hook |-> "plain"]

HooksP(k, n) ==
  [type |-> "hooks", kind |-> k, n |-> n, cfg |-> EmptyCfg, fn |-> FALSE,
   hook |-> "plain"]

\* Hooks.provide(h1..hn) where h1 throws
ThrowingHooksP(k, n) == [HooksP(k, n) EXCEPT !.hook = "throws"]

\* Hooks.provide(state => effect(() => ...)) of the state inheritance test:
\* the one hook makes an effect that controls the node's disabled input by
\* the value of its parent's
InheritHooksP(k) == [HooksP(k, 1) EXCEPT !.hook = "inherit"]

ConfigP(k, c) ==
  [type |-> "config", kind |-> k, n |-> 0, cfg |-> c, fn |-> FALSE,
   hook |-> "plain"]

\* Config.provide(() => ...): the contribution is a thunk
ConfigFnP(k) ==
  [type |-> "config", kind |-> k, n |-> 0, cfg |-> EmptyCfg, fn |-> TRUE,
   hook |-> "plain"]

\* ------------------------------------------------- the element injector
Elems == 1..Len(elems)

Alive(e) == e \in Elems /\ elems[e].alive

\* the elements from e to the root, nearest first (e = 0: above the root)
RECURSIVE PathUp(_)
PathUp(e) == IF e = 0 THEN <<>> ELSE <<e>> \o PathUp(elems[e].parent)

StrictlyAbove(a, e) == a # e /\ InSeq(a, PathUp(e))

\* the indexes of element e's providers of one type and kind
ProvIdx(e, type, k) ==
  {i \in DOMAIN elems[e].provs :
     elems[e].provs[i].type = type /\ elems[e].provs[i].kind = k}

Provides(e, type, k) == ProvIdx(e, type, k) # {}

Max(S) == CHOOSE x \in S : \A y \in S : y <= x

\* inject(token) from element e: the nearest element, e included, among
\* those of S (the elements with a provider of the token); 0 when there is none
Nearest(e, S) ==
  LET hits == SelectSeq(PathUp(e), LAMBDA x : x \in S)
  IN  IF hits = <<>> THEN 0 ELSE Head(hits)

\* inject(token, {skipSelf: true}) from element e
NearestAbove(e, S) == Nearest(elems[e].parent, S)

\* ------------------------------------------------ PROTO_ANCESTRY_CHAIN
\* Every State.provide() registers a provider of the one shared token
\* PROTO_ANCESTRY_CHAIN (proto.ts:196-211).  The elements that have one:
ChainElems == {e \in Elems : \E k \in Kinds : Provides(e, "state", k)}

\* ... and the kind whose factory is the one kept on element e: the last
\* State.provide() of the element's provider list.
ChainOwner(e) ==
  LET last == Max({i \in DOMAIN elems[e].provs : elems[e].provs[i].type = "state"})
  IN  elems[e].provs[last].kind

\* inject(PROTO_ANCESTRY_CHAIN, {optional, skipSelf}) from element e
ChainScopeAbove(e) == NearestAbove(e, ChainElems)

\* the value of the chain provider of element e (root first); the token's
\* root factory gives [] (proto-ancestry.ts:9-11)
RECURSIVE ChainValue(_)
ChainValue(e) ==
  IF e = 0 THEN <<>>
  ELSE Append(ChainValue(ChainScopeAbove(e)), <<e, ChainOwner(e)>>)

\* --------------------------------------------------------------- hooks
\* A hook is named by the place that contributes it: element, provider
\* index, position in that provider's argument list.
HooksOfProvider(e, i) == [j \in 1..elems[e].provs[i].n |-> <<e, i, j>>]

HookElems(k) == {e \in Elems : Provides(e, "hooks", k)}

\* (mutant) the factory puts this scope's hooks before the parent's
RECURSIVE HooksValueOwnFirst(_, _)
HooksValueOwnFirst(e, k) ==
  LET up == NearestAbove(e, HookElems(k))
      parent == IF up = 0 THEN <<>> ELSE HooksValueOwnFirst(up, k)
  IN  HooksOfProvider(e, Max(ProvIdx(e, "hooks", k))) \o parent

\* the value of hooksToken's provider on element e (proto.ts:313-316)
RECURSIVE HooksValue(_, _)
HooksValue(e, k) ==
  LET up == NearestAbove(e, HookElems(k))
      parent == IF up = 0 THEN <<>> ELSE HooksValue(up, k)
  IN  parent \o HooksOfProvider(e, Max(ProvIdx(e, "hooks", k)))

\* the hooks that throw: the first of the argument list of a provider of
\* throwing hooks
Throws(h) == elems[h[1]].provs[h[2]].hook = "throws" /\ h[3] = 1

\* the hooks that make the inheriting effect
Inherits(h) == elems[h[1]].provs[h[2]].hook = "inherit"

\* injectHooks / inject(hooksToken, {optional: true}) ?? [] from element e
InjectHooks(e, k) ==
  LET at == Nearest(e, HookElems(k))
  IN  IF at = 0 THEN <<>> ELSE HooksValue(at, k)

\* -------------------------------------------------------------- config
\* Configurations have the shape {a: {x, y}, c}; a partial one omits keys.
ObjKeys == {"a"}

DefaultConfig(k) ==
  IF k = "A" THEN [a |-> [x |-> 0, y |-> 0], c |-> 0] ELSE EmptyCfg

MergeLeaves(t, s) ==
  [key \in DOMAIN t \cup DOMAIN s |-> IF key \in DOMAIN s THEN s[key] ELSE t[key]]

\* deepMerge of one source into a target: key by key, objects recursively
DeepMerge2(t, s) ==
  [key \in DOMAIN t \cup DOMAIN s |->
     IF key \notin DOMAIN s THEN t[key]
     ELSE IF key \notin DOMAIN t THEN s[key]
     ELSE IF key \in ObjKeys THEN MergeLeaves(t[key], s[key])
     ELSE s[key]]

\* deepMerge(target, ...sources): the sources applied left to right
RECURSIVE DeepMerge(_, _)
DeepMerge(t, srcs) ==
  IF srcs = <<>> THEN t ELSE DeepMerge(DeepMerge2(t, Head(srcs)), Tail(srcs))

ConfigElems(k) == {e \in Elems : Provides(e, "config", k)}

\* The factory of a contribution provider (proto.ts:289-292): a thunk is run
\* (it reads the injected value), a plain contribution is returned as it is.
EnvValues == {5, 6}

ThunkValue == [c |-> env]

ContributionFactory(p) == IF p.fn THEN ThunkValue ELSE p.cfg

\* The injector runs a provider's factory on the first lookup that reaches
\* it and keeps the value.
Unresolved == [done |-> FALSE, val |-> EmptyCfg]

\* (mutant) the factory runs again on every lookup
ProviderValueUncached(e, i) == ContributionFactory(elems[e].provs[i])

ProviderValue(e, i) ==
  IF contrib[e][i].done THEN contrib[e][i].val
  ELSE ContributionFactory(elems[e].provs[i])

\* the indexes of a set of integers in increasing order
RECURSIVE Sorted(_)
Sorted(S) ==
  IF S = {} THEN <<>>
  ELSE LET m == CHOOSE x \in S : \A y \in S : x <= y
       IN  <<m>> \o Sorted(S \ {m})

\* the contributions of the providers of one element, in provider order
ContributionsAt(e, k) ==
  LET idx == Sorted(ProvIdx(e, "config", k))
  IN  [j \in DOMAIN idx |-> ProviderValue(e, idx[j])]

\* inject(configContributionToken, {optional: true}) ?? [] from element e:
\* the multi provider of the nearest element that has one
Contributions(e, k) ==
  LET at == Nearest(e, ConfigElems(k))
  IN  IF at = 0 THEN <<>> ELSE ContributionsAt(at, k)

\* (mutant) the contributions are spread into the merge in reverse order
InjectConfigReversed(e, k) ==
  DeepMerge(defaults[k], Reverse(Contributions(e, k)))

\* injectConfig (proto.ts:301-308)
InjectConfig(e, k) == DeepMerge(defaults[k], Contributions(e, k))

\* (mutant) deepMerge writes the merged leaves into its target
MergeTargetInPlace(t, result) == result

\* the target of deepMerge(target, ...sources) after the call that has
\* returned result: deepMerge builds a new object
MergeTarget(t, result) == t

\* ------------------------------------------------- internal proto state
\* The value of internalProtoToken's provider: the state signal (source),
\* the chain it captured, its ALL_CHILDREN signal, its config; pub says that
\* publicToken's factory has run on it (set and update are deleted).
\* Of its ancestry view (proto-ancestry.ts:80-87): cachedParent, and the
\* childrenOfType signals made so far (byType, the cache; made, their number).
Undefined == [set |-> FALSE, val |-> NULL]

\* the ids uniqueId has given out so far: one to every node instantiated
IdsIssued(nd) == Cardinality({m \in NodeIds : nd[m].inst})

\* the protoId of a node that is not instantiated
NoId == IdsIssued([m \in NodeIds |-> [inst |-> FALSE]])

\* (mutant) uniqueId does not advance its counter
UniqueIdRepeating(issued) == NoId + 1

\* uniqueId('proto'): the prefix with the next value of a process-wide
\* counter
UniqueId(issued) == issued + 1

FreshNode ==
  [inst |-> FALSE, source |-> NULL, chain |-> <<>>, children |-> <<>>,
   pub |-> FALSE, config |-> EmptyCfg, protoId |-> NoId,
   cachedParent |-> Undefined, byType |-> [k \in Kinds |-> NULL], made |-> 0]

\* (mutant) the new entry is put in front
RegisterChildFirst(c, self) == <<self>> \o c

\* cSignal.update(c => [...c, selfEntry])
RegisterChild(c, self) == Append(c, self)

\* (mutant) the filter compares entries by value: two entries of one kind
\* whose instances hold the same field values are equal
RemoveEntryByValue(c, self) == SelectSeq(c, LAMBDA p : p[2] # self[2])

\* cSignal.update(c => c.filter(p => p !== selfEntry))
RemoveEntry(c, self) == SelectSeq(c, LAMBDA p : p # self)

\* (mutant) the chain provider extends the array it got in place instead
\* of copying it: the nodes that captured that array see the new entry
RECURSIVE RegisterInAliased(_, _, _)
RegisterInAliased(nd, chain, self) ==
  LET r == IF chain = <<>> THEN nd
           ELSE RegisterInAliased(
                  [nd EXCEPT ![Head(chain)].children = RegisterChild(@, self)],
                  Tail(chain), self)
  IN  [m \in NodeIds |->
         IF m # self /\ r[m].inst /\ r[m].chain = nd[self].chain /\ chain # <<>>
                     /\ ~InSeq(self, r[m].chain)
         THEN [r[m] EXCEPT !.chain = Append(@, self)] ELSE r[m]]

\* for (const ancestor of chain) { cSignal.update(...) }
RECURSIVE RegisterIn(_, _, _)
RegisterIn(nd, chain, self) ==
  IF chain = <<>> THEN nd
  ELSE RegisterIn([nd EXCEPT ![Head(chain)].children = RegisterChild(@, self)],
                  Tail(chain), self)

\* inject(internalProtoToken) resolved on element e, and
\* inject(PROTO_ANCESTRY_CHAIN) resolved on element e: each runs the
\* provider's factory if it has not run yet.  The chain factory injects the
\* chain above it and then the internal state of its own kind.
RECURSIVE EnsureNode(_, _, _)
RECURSIVE EnsureChain(_, _)
EnsureNode(nd, e, k) ==
  IF nd[<<e, k>>].inst THEN nd
  ELSE LET up == ChainScopeAbove(e)
           n1 == EnsureChain(nd, up)
           chain == ChainValue(up)
           self == <<e, k>>
           made == [n1 EXCEPT ![self] =
                      [FreshNode EXCEPT !.inst = TRUE, !.chain = chain,
                                        !.protoId = UniqueId(IdsIssued(n1)),
                                        !.config = InjectConfig(e, k)]]
       IN  RegisterIn(made, chain, self)

EnsureChain(nd, e) ==
  IF e = 0 THEN nd
  ELSE EnsureNode(EnsureChain(nd, ChainScopeAbove(e)), e, ChainOwner(e))

\* the callbacks a node registered with destroyRef.onDestroy
RECURSIVE RemoveFrom(_, _, _)
RemoveFrom(nd, chain, self) ==
  IF chain = <<>> THEN nd
  ELSE RemoveFrom([nd EXCEPT ![Head(chain)].children = RemoveEntry(@, self)],
                  Tail(chain), self)

\* (mutant) the callbacks also clear the destroyed node's state slot
OnDestroyClearing(nd, self) ==
  [RemoveFrom(nd, nd[self].chain, self) EXCEPT ![self].source = NULL]

OnDestroy(nd, self) == RemoveFrom(nd, nd[self].chain, self)

\* The default configurations after the nodes of n1 that n0 lacks have been
\* instantiated: injectConfig (lines 301-308) passes the kind's default to
\* deepMerge as its target, last for the node created last (the lowest).
DefaultsAfter(n0, n1) ==
  [k \in Kinds |->
     LET new == {n \in NodeIds : n[2] = k /\ n1[n].inst /\ ~n0[n].inst}
     IN  IF new = {} THEN defaults[k]
         ELSE LET last == CHOOSE n \in new : \A m \in new : m[1] <= n[1]
              IN  MergeTarget(defaults[k], n1[last].config)]

\* The contribution providers whose factories have run by the time the
\* nodes of n1 that n0 lacks are instantiated: injectConfig (line 149) of each
\* resolves the multi provider of the nearest contributing element.
ResolvedBy(n0, n1) ==
  {pl \in UNION {{<<e, i>> : i \in DOMAIN elems[e].provs} : e \in Elems} :
     \E n \in NodeIds :
       /\ n1[n].inst /\ ~n0[n].inst
       /\ pl[1] = Nearest(n[1], ConfigElems(n[2]))
       /\ pl[2] \in ProvIdx(pl[1], "config", n[2])}

Resolve(places) ==
  [e \in DOMAIN contrib |->
     [i \in DOMAIN contrib[e] |->
        IF <<e, i>> \in places
        THEN [done |-> TRUE, val |-> ProviderValue(e, i)]
        ELSE contrib[e][i]]]

RECURSIVE DestroyAll(_, _)
DestroyAll(nd, S) ==
  IF S = {} THEN nd
  ELSE LET n == CHOOSE x \in S : TRUE
       IN  DestroyAll(OnDestroy(nd, n), S \ {n})

\* ----------------------------------------------------- ancestry view
\* createProtoAncestry (proto-ancestry.ts:66-148) over a node's chain and
\* children signal
\* (mutant) the chain is used as captured, root first
AncestorsRootFirst(n) == node[n].chain

Ancestors(n) == Reverse(node[n].chain)

AllChildren(n) == node[n].children

\* protoName: the name of the directive class, type.name (proto.ts:111, 148);
\* here the two kinds are classes of one name
TypeName(k) == "Dir"

\* (mutant) entries are matched by the name of their kind
OfKindByName(list, k) == SelectSeq(list, LAMBDA en : TypeName(en[2]) = TypeName(k))

\* list.find(e => e.token === token) ?? null, list.filter(e => e.token === token)
Find(list, k) ==
  LET hits == SelectSeq(list, LAMBDA en : en[2] = k)
  IN  IF hits = <<>> THEN NULL ELSE Head(hits)

OfKind(list, k) == SelectSeq(list, LAMBDA en : en[2] = k)

\* (mutant) the search runs over the chain as captured, root first
ParentOfTypeRootFirst(n, k) == Find(node[n].chain, k)

ParentOfType(n, k) == Find(Ancestors(n), k)

\* ancestors(), ancestorsOfType(token), allAncestors() without predicate
SameTypeAncestors(n) == OfKind(Ancestors(n), n[2])

AncestorsOfType(n, k) == OfKind(Ancestors(n), k)

AllAncestors(n) == Ancestors(n)

\* the same three with a predicate; S is the set of entries it accepts
SameTypeAncestorsWhere(n, S) ==
  SelectSeq(OfKind(Ancestors(n), n[2]), LAMBDA en : en \in S)

AncestorsOfTypeWhere(n, k, S) ==
  SelectSeq(OfKind(Ancestors(n), k), LAMBDA en : en \in S)

AllAncestorsWhere(n, S) == SelectSeq(Ancestors(n), LAMBDA en : en \in S)

\* children: computed(() => allChildrenSignal().filter(same token))
SameTypeChildren(n) == OfKind(AllChildren(n), n[2])

\* A childrenOfType signal is named by its node, its kind and its number
\* among the signals the node has made; its value is computed from the
\* node's ALL_CHILDREN signal.
SignalValue(h) == OfKind(AllChildren(h[1]), h[2])

\* ---------------------------------------------------------- initState
\* The statements of initState in program order; the call in progress is
\* at one of them.
\* (mutant) the hooks run before the state is set
InitOrderHooksFirst == <<"check", "wrap", "hooks", "publish", "return">>

\* (mutant) the inputs are wrapped before the already-initialized check
InitOrderWrapFirst == <<"wrap", "check", "publish", "hooks", "return">>

InitOrder == <<"check", "wrap", "publish", "hooks", "return">>

NextPc(pc) ==
  LET i == CHOOSE j \in DOMAIN InitOrder : InitOrder[j] = pc
  IN  InitOrder[i + 1]

Idle ==
  [pc |-> "idle", pos |-> 0, kind |-> "A", target |-> <<0, "A">>,
   hooks |-> <<>>, i |-> 0, inputs |-> 0]

\* (mutant) the loop walks the hook list from its end
HookAtReversed(hooks, i) == hooks[Len(hooks) - i]

\* (mutant) the check of line 240 is missing
NeverInitialized(n) == FALSE

\* if (proto()) ...
AlreadyInitialized(n) == node[n].source # NULL

\* inject(internalProtoToken) / inject(publicToken) from element p
StateScope(p, k) == Nearest(p, {e \in Elems : Provides(e, "state", k)})

\* ------------------------------------------------------ controlled input
\* An input of a host instance (disabled = input(false)): the value its
\* template binding gives it, and, once controlledInput has wrapped it, the
\* override.
\* value is what a reader of the signal gets, op the last operation on it
\* ("release": a change of the template value that found the override active).
InputValues == BOOLEAN

RawInput ==
  [template |-> FALSE, control |-> FALSE, controlled |-> FALSE,
   value |-> FALSE, op |-> "input"]

\* (mutant) the wrapper starts with its override active
ControlledInputActive(raw) ==
  [template |-> raw.value, control |-> raw.value, controlled |-> TRUE,
   value |-> raw.value, op |-> "wrap"]

\* controlledInput(value): the wrapper starts uncontrolled, its control value
\* and its template value those of the input
ControlledInput(raw) ==
  [template |-> raw.value, control |-> raw.value, controlled |-> FALSE,
   value |-> raw.value, op |-> "wrap"]

\* (mutant) the template value is tracked and not surfaced while the
\* override is active
OnTemplateHidden(c, v) ==
  [c EXCEPT !.template = v,
            !.value = IF c.controlled THEN c.control ELSE v,
            !.op = IF c.controlled THEN "release" ELSE "template"]

\* the binding of the input gives it the value v: the wrapper is
\* uncontrolled afterwards and reads v, its control value is kept
OnTemplate(c, v) ==
  [c EXCEPT !.template = v, !.controlled = FALSE, !.value = v,
            !.op = IF c.controlled THEN "release" ELSE "template"]

\* (mutant) control(v) stores v and does not activate the override
OnControlInactive(c, v) == [c EXCEPT !.control = v, !.op = "control"]

\* control(v)
OnControl(c, v) ==
  [c EXCEPT !.control = v, !.controlled = TRUE, !.value = v, !.op = "control"]

\* (mutant) reset() deactivates the override and leaves the value read
OnResetStale(c) == [c EXCEPT !.controlled = FALSE, !.op = "reset"]

\* reset()
OnReset(c) ==
  [c EXCEPT !.controlled = FALSE, !.value = c.template, !.op = "reset"]

\* ------------------------------------------------- after-render callbacks
\* What afterNextRender keeps: the callbacks scheduled and not yet run, the
\* callbacks run, the number scheduled so far, and whether the framework is
\* in an update pass or runs the callbacks after one.
NoCallbacks == [queue |-> <<>>, fired |-> <<>>, count |-> 0, phase |-> "update"]

\* the hooks that schedule a callback with afterNextRender: those after the
\* first of a provider's argument list
Defers(h) == h[3] > 1

\* (mutant) the hooks run in the context of the environment injector
InitInjectorRoot(c) == 0

\* const injector = inject(Injector): the injector of the element whose
\* constructor calls initState; runInInjectionContext(injector, ...) makes
\* it the owner of what the hooks register
InitInjector(c) == c.pos

\* (mutant) the hook calls its callback at once
AfterNextRenderNow(a, cb) ==
  [a EXCEPT !.fired = Append(@, [cb EXCEPT !.seq = a.count + 1]),
            !.count = @ + 1]

\* afterNextRender(callback) in the context of injector cb.owner
AfterNextRender(a, cb) ==
  [a EXCEPT !.queue = Append(@, [cb EXCEPT !.seq = a.count + 1]),
            !.count = @ + 1]

\* the callback a hook schedules for the node it runs for
Callback(c, h) == [hook |-> h, node |-> c.target, owner |-> InitInjector(c), seq |-> 0]

\* the injectors of the elements of S are destroyed: the callbacks they own
\* are unregistered
Release(a, S) ==
  [a EXCEPT !.queue = SelectSeq(@, LAMBDA cb : cb.owner \notin S)]

\* the injectors of the elements of S are destroyed: so are the effects
\* they own
ReleaseEffects(fx, S) ==
  [made |-> {ef \in fx.made : ef.owner \notin S},
   dirty |-> {ef \in fx.dirty : ef.owner \notin S}]

\* ------------------------------------------------------ ancestor lookups
\* the result of the last injectProtoAncestor or injectProtoParent call:
\* the element of the caller, the kind asked for, and the node whose state
\* the call has returned (NULL: it has returned null or thrown)
NothingFound == [op |-> "none", at |-> Cardinality({}), kind |-> "A", state |-> NULL]

\* ---------------------------------------------------------------- effects
\* the effects the hooks have made, each for a node and owned by an
\* injector, and those of them that are due to run
NoEffects == [made |-> {}, dirty |-> {}]

\* --------------------------------------------------------------- Init
Init ==
  /\ elems = <<>>
  /\ node = [n \in NodeIds |-> FreshNode]
  /\ ran = [n \in NodeIds |-> <<>>]
  /\ wrapped = {}
  /\ todo = <<>>
  /\ cur = Idle
  /\ res = "none"
  /\ devMode \in BOOLEAN
  /\ env = CHOOSE v \in EnvValues : \A w \in EnvValues : v <= w
  /\ contrib = <<>>
  /\ input = [i \in InputIds |-> RawInput]
  /\ after = NoCallbacks
  /\ defaults = [k \in Kinds |-> DefaultConfig(k)]
  /\ found = NothingFound
  /\ effects = NoEffects
  /\ warned = {}

\* ------------------------------------------------------------ actions
\* a call made by a constructor: Proto(this) of kind k, or State.inject(opts)
InitCallWith(k, n) ==
  [op |-> "init", kind |-> k, optional |-> FALSE, inputs |-> n]

\* ... of an instance with one input field, as the directives of the test
\* fixtures
InitCall(k) == InitCallWith(k, 1)

LookupCall(k, optional) == [op |-> "lookup", kind |-> k, optional |-> optional]

\* the directives attached to an element: their providers, in order, and the
\* calls their constructors make, in order
Shape(provs, script) == [provs |-> provs, script |-> script]

Quiet == cur.pc = "idle" /\ todo = <<>>

\* the element under construction
Here == Len(elems)

\* The framework creates an element under a live parent (the first one at
\* the root) and runs the constructors of its directives.
CreateElementWithin(shapes, max) ==
  /\ Quiet
  /\ after.phase = "update"
  /\ Len(elems) < max
  /\ \E par \in (IF elems = <<>> THEN {0} ELSE {e \in Elems : elems[e].alive}),
        sh \in shapes :
       /\ elems' = Append(elems, [parent |-> par, provs |-> sh.provs, alive |-> TRUE])
       /\ contrib' = Append(contrib, [i \in DOMAIN sh.provs |-> Unresolved])
       /\ todo' = sh.script
  /\ res' = "none"
  /\ UNCHANGED <<node, ran, wrapped, cur, devMode, env, input, after, defaults, found, effects, warned>>

CreateElementOf(shapes) == CreateElementWithin(shapes, MaxElems)

\* initState(instance), line 237: const proto = inject(internalProtoToken),
\* called by the instance of kind k of the element under construction
BeginInit ==
  /\ cur.pc = "idle"
  /\ todo # <<>>
  /\ Head(todo).op = "init"
  /\ LET k == Head(todo).kind
         t == StateScope(Here, k)
     IN  IF t = 0
         THEN /\ res' = "nullInjector"
              /\ todo' = <<>>
              /\ UNCHANGED <<node, cur, contrib, defaults>>
         ELSE /\ node' = EnsureNode(node, t, k)
              /\ contrib' = Resolve(ResolvedBy(node, node'))
              /\ defaults' = DefaultsAfter(node, node')
              /\ cur' = [Idle EXCEPT !.pc = InitOrder[1], !.pos = Here,
                                      !.kind = k, !.target = <<t, k>>,
                                      !.inputs = Head(todo).inputs]
              /\ res' = "none"
              /\ todo' = Tail(todo)
  /\ UNCHANGED <<elems, ran, wrapped, devMode, env, input, after, found, effects, warned>>

\* lines 239-251: the already-initialized check, then the hook list
CheckStep ==
  /\ cur.pc = "check"
  /\ IF AlreadyInitialized(cur.target)
     THEN /\ cur' = Idle
          /\ IF devMode
             THEN res' = "calledTwice" /\ todo' = <<>> /\ UNCHANGED node
             ELSE /\ res' = "existing"
                  /\ node' = [node EXCEPT ![cur.target].pub = TRUE]
                  /\ UNCHANGED todo
     ELSE /\ cur' = [cur EXCEPT !.pc = NextPc("check"),
                                !.hooks = InjectHooks(cur.pos, cur.kind)]
          /\ UNCHANGED <<node, res, todo>>
  /\ UNCHANGED <<elems, ran, wrapped, devMode, env, contrib, input, after, defaults, found, effects, warned>>

\* (mutant) an instance without input signals is refused
AfterWrapStrict(c) ==
  IF c.inputs = 0 THEN Idle ELSE [c EXCEPT !.pc = NextPc("wrap")]

\* lines 263-272: whatever inputCount is, the call goes on with the next
\* statement
AfterWrap(c) == [c EXCEPT !.pc = NextPc("wrap")]

\* lines 253-269: controlledInput on every input signal of the instance,
\* console.warn in development mode when there is none
WrapStep ==
  /\ cur.pc = "wrap"
  /\ wrapped' = wrapped \cup {<<cur.pos, cur.kind>>}
  /\ input' = [i \in InputIds |->
                 IF i[1] = <<cur.pos, cur.kind>> /\ i[2] <= cur.inputs
                 THEN ControlledInput(input[i]) ELSE input[i]]
  /\ warned' = IF devMode /\ cur.inputs = 0
               THEN warned \cup {<<cur.pos, cur.kind>>} ELSE warned
  /\ cur' = AfterWrap(cur)
  /\ UNCHANGED <<elems, node, ran, todo, res, devMode, env, contrib, after, defaults, found, effects>>

\* line 272: proto.set(instance); set is gone once publicToken's factory
\* has run on the object (lines 186-188), and the call throws
PublishStep ==
  /\ cur.pc = "publish"
  /\ IF node[cur.target].pub
     THEN /\ res' = "typeError"
          /\ cur' = Idle
          /\ todo' = <<>>
          /\ UNCHANGED node
     ELSE /\ node' = [node EXCEPT ![cur.target].source = <<cur.pos, cur.kind>>]
          /\ cur' = [cur EXCEPT !.pc = NextPc("publish")]
          /\ UNCHANGED <<res, todo>>
  /\ UNCHANGED <<elems, ran, wrapped, devMode, env, contrib, input, after, defaults, found, effects, warned>>

\* lines 275-279: one iteration of for (const hook of hooks) hook(proto)
HookAt(hooks, i) == hooks[i + 1]

\* (mutant) the loop catches what a hook throws and goes on with the next
AfterThrowCaught(c) == [c EXCEPT !.i = c.i + 1]

\* a hook throws: nothing in initState catches it, the call ends there
AfterThrow(c) == Idle

\* the effect a hook makes for the node it runs for, owned by the injector
\* the hooks run in
Effect(c) == [node |-> c.target, owner |-> InitInjector(c)]

\* effect(fn) in a hook: the effect is made and scheduled for its first run
MakeEffect(fx, ef) ==
  [fx EXCEPT !.made = @ \cup {ef}, !.dirty = @ \cup {ef}]

RunHook ==
  /\ cur.pc = "hooks"
  /\ cur.i < Len(cur.hooks)
  /\ ran' = [ran EXCEPT ![cur.target] =
               Append(@, [hook |-> HookAt(cur.hooks, cur.i),
                          seen |-> node[cur.target].source])]
  /\ IF Throws(HookAt(cur.hooks, cur.i))
     THEN /\ cur' = AfterThrow(cur)
          /\ res' = "hookError"
          /\ todo' = <<>>
     ELSE /\ cur' = [cur EXCEPT !.i = cur.i + 1]
          /\ UNCHANGED <<todo, res>>
  /\ after' = IF Defers(HookAt(cur.hooks, cur.i))
              THEN AfterNextRender(after, Callback(cur, HookAt(cur.hooks, cur.i)))
              ELSE after
  /\ effects' = IF Inherits(HookAt(cur.hooks, cur.i))
                THEN MakeEffect(effects, Effect(cur))
                ELSE effects
  /\ UNCHANGED <<elems, node, wrapped, devMode, env, contrib, input, defaults, found, warned>>

\* the loop of lines 276-278 has ended
HooksDone ==
  /\ cur.pc = "hooks"
  /\ cur.i = Len(cur.hooks)
  /\ cur' = [cur EXCEPT !.pc = NextPc("hooks")]
  /\ UNCHANGED <<elems, node, ran, wrapped, todo, res, devMode, env, contrib, input, after, defaults, found, effects, warned>>

\* (mutant) the initializer returns the internal object as it is
ReturnStepInternal ==
  /\ cur.pc = "return"
  /\ res' = "handle"
  /\ cur' = Idle
  /\ UNCHANGED <<elems, node, ran, wrapped, todo, devMode, env, contrib, input, after, defaults, found, effects, warned>>

\* line 281: return inject(publicToken)
ReturnStep ==
  /\ cur.pc = "return"
  /\ node' = [node EXCEPT ![cur.target].pub = TRUE]
  /\ res' = "handle"
  /\ cur' = Idle
  /\ UNCHANGED <<elems, ran, wrapped, todo, devMode, env, contrib, input, after, defaults, found, effects, warned>>

\* (mutant) the check of line 227 is missing
InjectStateUnchecked ==
  /\ cur.pc = "idle"
  /\ todo # <<>>
  /\ Head(todo).op = "lookup"
  /\ LET k == Head(todo).kind
         optional == Head(todo).optional
         t == StateScope(Here, k)
     IN  IF t = 0
         THEN /\ res' = IF optional THEN "null" ELSE "nullInjector"
              /\ todo' = IF optional THEN Tail(todo) ELSE <<>>
              /\ UNCHANGED <<node, contrib, defaults>>
         ELSE LET n1 == EnsureNode(node, t, k)
              IN  /\ node' = [n1 EXCEPT ![<<t, k>>].pub = TRUE]
                  /\ contrib' = Resolve(ResolvedBy(node, n1))
                  /\ defaults' = DefaultsAfter(node, n1)
                  /\ res' = "handle"
                  /\ todo' = Tail(todo)
  /\ UNCHANGED <<elems, ran, wrapped, cur, devMode, env, input, after, found, effects, warned>>

\* injectState(opts) (lines 224-234), called by a constructor of the
\* element under construction
InjectState ==
  /\ cur.pc = "idle"
  /\ todo # <<>>
  /\ Head(todo).op = "lookup"
  /\ LET k == Head(todo).kind
         optional == Head(todo).optional
         t == StateScope(Here, k)
     IN  IF t = 0
         THEN /\ res' = IF optional THEN "null" ELSE "nullInjector"
              /\ todo' = IF optional THEN Tail(todo) ELSE <<>>
              /\ UNCHANGED <<node, contrib, defaults>>
         ELSE LET n1 == EnsureNode(node, t, k)
                  throws == ~optional /\ n1[<<t, k>>].source = NULL
              IN  /\ node' = [n1 EXCEPT ![<<t, k>>].pub = TRUE]
                  /\ contrib' = Resolve(ResolvedBy(node, n1))
                  /\ defaults' = DefaultsAfter(node, n1)
                  /\ res' = IF throws THEN "notInitialized" ELSE "handle"
                  /\ todo' = IF throws THEN <<>> ELSE Tail(todo)
  /\ UNCHANGED <<elems, ran, wrapped, cur, devMode, env, input, after, found, effects, warned>>

\* injectProtoAncestor(K.State.token, {optional}) and
\* injectProtoParent(K.State.token, {optional}), called by a constructor
AncestorCall(k, optional) == [op |-> "ancestor", kind |-> k, optional |-> optional]

ParentCall(k, optional) == [op |-> "parent", kind |-> k, optional |-> optional]

\* (mutant) the lookup starts at the caller's own element
AncestorScopeWithSelf(e, k) == Nearest(e, {x \in Elems : Provides(x, "state", k)})

\* inject(token, {skipSelf: true}) from element e
AncestorScope(e, k) == NearestAbove(e, {x \in Elems : Provides(x, "state", k)})

\* injectProtoAncestor (proto-ancestry.ts:160-175): the state of the nearest
\* provider above, null or the error when there is none
InjectProtoAncestor ==
  /\ cur.pc = "idle"
  /\ todo # <<>>
  /\ Head(todo).op = "ancestor"
  /\ LET k == Head(todo).kind
         optional == Head(todo).optional
         t == AncestorScope(Here, k)
     IN  IF t = 0
         THEN /\ res' = IF optional THEN "null" ELSE "ancestorNotFound"
              /\ todo' = IF optional THEN Tail(todo) ELSE <<>>
              /\ found' = [op |-> "ancestor", at |-> Here, kind |-> k, state |-> NULL]
              /\ UNCHANGED <<node, contrib, defaults>>
         ELSE LET n1 == EnsureNode(node, t, k)
              IN  /\ node' = [n1 EXCEPT ![<<t, k>>].pub = TRUE]
                  /\ contrib' = Resolve(ResolvedBy(node, n1))
                  /\ defaults' = DefaultsAfter(node, n1)
                  /\ res' = "handle"
                  /\ todo' = Tail(todo)
                  /\ found' = [op |-> "ancestor", at |-> Here, kind |-> k,
                               state |-> <<t, k>>]
  /\ UNCHANGED <<elems, ran, wrapped, cur, devMode, env, input, after, effects, warned>>

\* injectProtoParent (proto-ancestry.ts:187-192): inject(token, {...options,
\* skipSelf: true}) ?? null; without optional the injector throws when
\* there is no provider above
InjectProtoParent ==
  /\ cur.pc = "idle"
  /\ todo # <<>>
  /\ Head(todo).op = "parent"
  /\ LET k == Head(todo).kind
         optional == Head(todo).optional
         t == AncestorScope(Here, k)
     IN  IF t = 0
         THEN /\ res' = IF optional THEN "null" ELSE "nullInjector"
              /\ todo' = IF optional THEN Tail(todo) ELSE <<>>
              /\ found' = [op |-> "parent", at |-> Here, kind |-> k, state |-> NULL]
              /\ UNCHANGED <<node, contrib, defaults>>
         ELSE LET n1 == EnsureNode(node, t, k)
              IN  /\ node' = [n1 EXCEPT ![<<t, k>>].pub = TRUE]
                  /\ contrib' = Resolve(ResolvedBy(node, n1))
                  /\ defaults' = DefaultsAfter(node, n1)
                  /\ res' = "handle"
                  /\ todo' = Tail(todo)
                  /\ found' = [op |-> "parent", at |-> Here, kind |-> k,
                               state |-> <<t, k>>]
  /\ UNCHANGED <<elems, ran, wrapped, cur, devMode, env, input, after, effects, warned>>

\* The framework destroys element e with everything below it; every
\* destroyed node's onDestroy callbacks run (lines 171-173).
Subtree(e) == {x \in Elems : InSeq(e, PathUp(x))}

Destroy ==
  /\ Quiet
  /\ after.phase = "update"
  /\ \E e \in Elems :
       /\ Alive(e)
       /\ elems' = [x \in DOMAIN elems |->
                     IF x \in Subtree(e) THEN [elems[x] EXCEPT !.alive = FALSE]
                     ELSE elems[x]]
       /\ node' = DestroyAll(node, {n \in NodeIds : n[1] \in Subtree(e) /\ node[n].inst})
       /\ after' = Release(after, Subtree(e))
       /\ effects' = ReleaseEffects(effects, Subtree(e))
  /\ res' = "none"
  /\ UNCHANGED <<ran, wrapped, todo, cur, devMode, env, contrib, input, defaults, found, warned>>

\* what the parent getter returns when read now
ParentRead(n) ==
  IF node[n].cachedParent.set THEN node[n].cachedParent.val
  ELSE ParentOfType(n, n[2])

\* A consumer reads ancestry.parent of a node (proto-ancestry.ts:90-97).
ReadParent ==
  /\ Quiet
  /\ \E n \in NodeIds :
       /\ node[n].inst
       /\ node' = [node EXCEPT ![n].cachedParent =
                     IF @.set THEN @
                     ELSE [set |-> TRUE, val |-> ParentOfType(n, n[2])]]
  /\ UNCHANGED <<elems, ran, wrapped, todo, cur, res, devMode, env, contrib, input, after, defaults, found, effects, warned>>

\* the childrenOfType signals made so far
RECURSIVE SignalsMade(_)
SignalsMade(S) ==
  IF S = {} THEN 0
  ELSE LET n == CHOOSE x \in S : TRUE
       IN  node[n].made + SignalsMade(S \ {n})

\* (mutant) the cache is not consulted: every call makes a new signal
ChildrenOfTypeUncached ==
  /\ Quiet
  /\ \E n \in NodeIds, k \in Kinds :
       /\ node[n].inst
       /\ SignalsMade(NodeIds) < MaxSignals
       /\ node' = [node EXCEPT ![n].byType[k] = <<n, k, node[n].made + 1>>,
                                ![n].made = @ + 1]
  /\ UNCHANGED <<elems, ran, wrapped, todo, cur, res, devMode, env, contrib, input, after, defaults, found, effects, warned>>

\* A consumer calls ancestry.childrenOfType(token) of a node
\* (proto-ancestry.ts:129-140).
ChildrenOfType ==
  /\ Quiet
  /\ \E n \in NodeIds, k \in Kinds :
       /\ node[n].inst
       /\ IF node[n].byType[k] # NULL THEN node' = node
          ELSE /\ SignalsMade(NodeIds) < MaxSignals
               /\ node' = [node EXCEPT ![n].byType[k] = <<n, k, node[n].made + 1>>,
                                        ![n].made = @ + 1]
  /\ UNCHANGED <<elems, ran, wrapped, todo, cur, res, devMode, env, contrib, input, after, defaults, found, effects, warned>>

\* The value the contribution thunks read changes (a service's field, a
\* signal) while no constructor runs.
ChangeEnv ==
  /\ Quiet
  /\ \E v \in EnvValues \ {env} : env' = v
  /\ UNCHANGED <<elems, node, ran, wrapped, todo, cur, res, devMode, contrib, input, after, defaults, found, effects, warned>>

\* the inputs controlledInput has wrapped
WrappedInputs == {i \in InputIds : input[i].op # "input"}

\* state().disabled() of node n: the value read of the first input of its
\* instance
Disabled(inp, n) == inp[<<node[n].source, 1>>].value

\* The effects that have read a value that differs between inp0 and inp1:
\* the effect of a node reads parent.state().disabled() of the node's parent.
Dirtied(inp0, inp1) ==
  {ef \in effects.made :
     LET par == ParentRead(ef.node)
     IN  /\ par # NULL
         /\ node[par].source # NULL
         /\ Disabled(inp1, par) # Disabled(inp0, par)}

\* the signals written notify the effects that have read them
Notify(fx, inp0, inp1) == [fx EXCEPT !.dirty = @ \cup Dirtied(inp0, inp1)]

\* The template binding of a wrapped input of a live instance changes
\* (dir1Disabled.set(...) followed by detectChanges()).
TemplateChange ==
  /\ Quiet
  /\ \E i \in WrappedInputs, v \in InputValues :
       /\ Alive(i[1][1])
       /\ v # input[i].template
       /\ input' = [input EXCEPT ![i] = OnTemplate(@, v)]
  /\ effects' = Notify(effects, input, input')
  /\ res' = "none"
  /\ UNCHANGED <<elems, node, ran, wrapped, todo, cur, devMode, env, contrib, after, defaults, found, warned>>

\* the instances a holder of a state handle reaches: state().disabled
Published == {i \in NodeIds : \E n \in NodeIds : node[n].inst /\ node[n].source = i}

\* (mutant) one override is kept per instance: all its inputs take it
OverridePerInstance(inp, i, new) ==
  [j \in InputIds |->
     IF j[1] = i[1] /\ inp[j].op # "input"
     THEN [inp[j] EXCEPT !.controlled = new.controlled,
                         !.control = new.control,
                         !.value = IF new.controlled THEN new.control
                                   ELSE inp[j].template,
                         !.op = new.op]
     ELSE inp[j]]

\* controlledInput(value) is called on each input signal by itself: what
\* control() and reset() write belongs to the one input they are called on
Override(inp, i, new) == [inp EXCEPT ![i] = new]

\* A holder of a state handle calls state().disabled.control(v).
Control ==
  /\ Quiet
  /\ \E i \in WrappedInputs, v \in InputValues :
       /\ i[1] \in Published
       /\ Alive(i[1][1])
       /\ input' = Override(input, i, OnControl(input[i], v))
  /\ effects' = Notify(effects, input, input')
  /\ res' = "none"
  /\ UNCHANGED <<elems, node, ran, wrapped, todo, cur, devMode, env, contrib, after, defaults, found, warned>>

\* A holder of a state handle calls state().disabled.reset().
Reset ==
  /\ Quiet
  /\ \E i \in WrappedInputs :
       /\ i[1] \in Published
       /\ Alive(i[1][1])
       /\ input' = Override(input, i, OnReset(input[i]))
  /\ effects' = Notify(effects, input, input')
  /\ res' = "none"
  /\ UNCHANGED <<elems, node, ran, wrapped, todo, cur, devMode, env, contrib, after, defaults, found, warned>>

\* The framework runs an effect that is due (proto-ancestry.ts:1136-1145):
\* the effect reads state.ancestry.parent and, when there is a parent,
\* calls state().disabled.control(parent.state().disabled()); with a parent
\* whose state is null it throws before it writes.
RunEffect ==
  /\ Quiet
  /\ \E ef \in effects.dirty :
       LET n == ef.node
           par == ParentRead(n)
           own == <<node[n].source, 1>>
       IN  /\ Alive(ef.owner)
           /\ node[n].source # NULL
           /\ node' = [node EXCEPT ![n].cachedParent =
                         IF @.set THEN @ ELSE [set |-> TRUE, val |-> par]]
           /\ input' = IF par = NULL \/ node[par].source = NULL THEN input
                       ELSE Override(input, own,
                                     OnControl(input[own], Disabled(input, par)))
           /\ effects' = [effects EXCEPT
                            !.dirty = (@ \ {ef}) \cup Dirtied(input, input')]
  /\ UNCHANGED <<elems, ran, wrapped, todo, cur, res, devMode, env, contrib, after, defaults, found, warned>>

\* The update pass has settled with callbacks scheduled: the framework
\* turns to them.
EndPass ==
  /\ Quiet
  /\ after.phase = "update"
  /\ after.queue # <<>>
  /\ after' = [after EXCEPT !.phase = "after"]
  /\ UNCHANGED <<elems, node, ran, wrapped, todo, cur, res, devMode, env, contrib, input, defaults, found, effects, warned>>

\* The framework runs the first of the scheduled callbacks; after the last
\* one the next update pass may begin.
RunDeferred ==
  /\ after.phase = "after"
  /\ after.queue # <<>>
  /\ after' = [after EXCEPT !.queue = Tail(@),
                            !.fired = Append(@, Head(after.queue)),
                            !.phase = IF Tail(after.queue) = <<>>
                                      THEN "update" ELSE "after"]
  /\ UNCHANGED <<elems, node, ran, wrapped, todo, cur, res, devMode, env, contrib, input, defaults, found, effects, warned>>

\* ------------------------------------------------------ specifications
\* The directives of the core specification: a directive of kind A or B that
\* provides its state and initializes it; both on one element (B hosting A);
\* one that contributes a hook and initializes twice; one that never
\* initializes; one that looks its state up before initializing; one
\* that initializes without providing its state.
CoreShapes ==
  { Shape(<<StateP("A")>>, <<InitCall("A")>>),
    Shape(<<StateP("B")>>, <<InitCall("B")>>),
    Shape(<<StateP("A"), StateP("B")>>, <<InitCall("A"), InitCall("B")>>),
    Shape(<<StateP("A"), HooksP("A", 1)>>, <<InitCall("A"), InitCall("A")>>),
    Shape(<<StateP("A")>>, <<>>),
    Shape(<<StateP("A")>>, <<LookupCall("A", TRUE), InitCall("A")>>),
    Shape(<<>>, <<InitCall("A")>>) }

CreateElement == CreateElementOf(CoreShapes)

Next ==
  \/ CreateElement
  \/ BeginInit
  \/ CheckStep
  \/ WrapStep
  \/ PublishStep
  \/ RunHook
  \/ HooksDone
  \/ ReturnStep
  \/ InjectState
  \/ Destroy

Spec == Init /\ [][Next]_vars

\* The directives of the hooks specification, all of kind A: a plain one; a
\* component that contributes a hook to the directives below it; a directive
\* with hooks of its own; a directive with a hook of its own used as host
\* directive of one that contributes a further hook (the UiButton pattern).
HookShapes ==
  { Shape(<<StateP("A")>>, <<InitCall("A")>>),
    Shape(<<HooksP("A", 1)>>, <<>>),
    Shape(<<StateP("A"), HooksP("A", MaxHooksPerProvider)>>, <<InitCall("A")>>),
    Shape(<<StateP("A"), HooksP("A", 1), HooksP("A", 1)>>, <<InitCall("A")>>) }

CreateHookElement == CreateElementOf(HookShapes)

NextHooks ==
  \/ CreateHookElement
  \/ BeginInit
  \/ CheckStep
  \/ WrapStep
  \/ PublishStep
  \/ RunHook
  \/ HooksDone
  \/ ReturnStep
  \/ Destroy

SpecHooks == Init /\ [][NextHooks]_vars

\* The directives of the configuration specification, all of kind A: a
\* plain one; a component that contributes to the directives below it; a
\* directive with a contribution of its own; a component with two nested
\* host directives that contribute (the ProtoTestWrapper pattern).
CfgGrandparent == [a |-> [x |-> 1]]

CfgParent == [a |-> [x |-> 2, y |-> 2]]

CfgSelf == [a |-> [y |-> 3], c |-> 3]

ConfigShapes ==
  { Shape(<<StateP("A")>>, <<InitCall("A")>>),
    Shape(<<ConfigP("A", CfgGrandparent)>>, <<>>),
    Shape(<<StateP("A"), ConfigP("A", CfgSelf)>>, <<InitCall("A")>>),
    Shape(<<ConfigP("A", CfgGrandparent), ConfigP("A", CfgParent),
            StateP("A"), ConfigP("A", CfgSelf)>>, <<InitCall("A")>>) }

CreateConfigElement == CreateElementOf(ConfigShapes)

NextConfig ==
  \/ CreateConfigElement
  \/ BeginInit
  \/ CheckStep
  \/ WrapStep
  \/ PublishStep
  \/ HooksDone
  \/ ReturnStep
  \/ Destroy

SpecConfig == Init /\ [][NextConfig]_vars

\* The directives of the specification of changing contributions, all of
\* kind A: a plain one; a component whose contribution is a thunk; a
\* directive with a thunk contribution of its own; a directive with a
\* plain contribution of its own.
ThunkShapes ==
  { Shape(<<StateP("A")>>, <<InitCall("A")>>),
    Shape(<<ConfigFnP("A")>>, <<>>),
    Shape(<<StateP("A"), ConfigFnP("A")>>, <<InitCall("A")>>),
    Shape(<<StateP("A"), ConfigP("A", CfgGrandparent)>>, <<InitCall("A")>>) }

CreateThunkElement == CreateElementOf(ThunkShapes)

NextThunks ==
  \/ CreateThunkElement
  \/ BeginInit
  \/ CheckStep
  \/ WrapStep
  \/ PublishStep
  \/ HooksDone
  \/ ReturnStep
  \/ Destroy
  \/ ChangeEnv

SpecThunks == Init /\ [][NextThunks]_vars

\* The directives of the lookup specification, all about kind A: a directive
\* that provides and initializes its state; one that looks its state up
\* before it initializes it, required or optional; a consumer that looks the
\* state of an enclosing directive up, required or optional.
LookupShapes ==
  { Shape(<<StateP("A")>>, <<InitCall("A")>>),
    Shape(<<StateP("A")>>, <<LookupCall("A", FALSE), InitCall("A")>>),
    Shape(<<StateP("A")>>, <<LookupCall("A", TRUE), InitCall("A")>>),
    Shape(<<>>, <<LookupCall("A", FALSE)>>),
    Shape(<<>>, <<LookupCall("A", TRUE)>>) }

CreateLookupElement == CreateElementOf(LookupShapes)

NextLookup ==
  \/ CreateLookupElement
  \/ BeginInit
  \/ CheckStep
  \/ WrapStep
  \/ PublishStep
  \/ HooksDone
  \/ ReturnStep
  \/ InjectState
  \/ Destroy

SpecLookup == Init /\ [][NextLookup]_vars

\* The directives of the ancestry specifications: a directive of kind A, one
\* of kind B, and a directive of kind B with one of kind A as host directive,
\* each initializing its state.
AncestryShapes ==
  { Shape(<<StateP("A")>>, <<InitCall("A")>>),
    Shape(<<StateP("B")>>, <<InitCall("B")>>),
    Shape(<<StateP("A"), StateP("B")>>, <<InitCall("A"), InitCall("B")>>) }

CreateAncestryElement == CreateElementOf(AncestryShapes)

NextParents ==
  \/ CreateAncestryElement
  \/ BeginInit
  \/ CheckStep
  \/ WrapStep
  \/ PublishStep
  \/ HooksDone
  \/ ReturnStep
  \/ Destroy
  \/ ReadParent

SpecParents == Init /\ [][NextParents]_vars

NextChildren ==
  \/ CreateAncestryElement
  \/ BeginInit
  \/ CheckStep
  \/ WrapStep
  \/ PublishStep
  \/ HooksDone
  \/ ReturnStep
  \/ Destroy
  \/ ChildrenOfType

SpecChildren == Init /\ [][NextChildren]_vars

\* The deep-tree specification: directives of kind A only, in trees of up
\* to MaxDeepElems elements.
DeepShapes == { Shape(<<StateP("A")>>, <<InitCall("A")>>) }

CreateDeepElement == CreateElementWithin(DeepShapes, MaxDeepElems)

NextDeep ==
  \/ CreateDeepElement
  \/ BeginInit
  \/ CheckStep
  \/ WrapStep
  \/ PublishStep
  \/ HooksDone
  \/ ReturnStep
  \/ Destroy

SpecDeep == Init /\ [][NextDeep]_vars

\* The specification of the controlled inputs: directives of kind A that
\* provide and initialize their state, their inputs bound, controlled and
\* reset by the holders of their state.
ControlShapes == { Shape(<<StateP("A")>>, <<InitCall("A")>>) }

CreateControlElement == CreateElementOf(ControlShapes)

NextControl ==
  \/ CreateControlElement
  \/ BeginInit
  \/ CheckStep
  \/ WrapStep
  \/ PublishStep
  \/ HooksDone
  \/ ReturnStep
  \/ TemplateChange
  \/ Control
  \/ Reset

SpecControl == Init /\ [][NextControl]_vars

\* The specification of the deferred callbacks: directives of kind A that
\* provide and initialize their state, with or without hooks, the second
\* hook of a provider scheduling a callback with afterNextRender.
AfterShapes ==
  { Shape(<<StateP("A")>>, <<InitCall("A")>>),
    Shape(<<StateP("A"), HooksP("A", MaxHooksPerProvider)>>, <<InitCall("A")>>) }

CreateAfterElement == CreateElementOf(AfterShapes)

InitSteps ==
  \/ BeginInit
  \/ CheckStep
  \/ WrapStep
  \/ PublishStep
  \/ RunHook
  \/ HooksDone
  \/ ReturnStep

NextAfter ==
  \/ CreateAfterElement
  \/ InitSteps
  \/ Destroy
  \/ EndPass
  \/ RunDeferred

SpecAfter == Init /\ [][NextAfter]_vars

\* A constructor runs to its end, a settled pass with callbacks scheduled
\* ends, and the framework runs the callbacks it has.
SpecAfterFair ==
  /\ SpecAfter
  /\ WF_vars(BeginInit)
  /\ WF_vars(CheckStep)
  /\ WF_vars(WrapStep)
  /\ WF_vars(PublishStep)
  /\ WF_vars(RunHook)
  /\ WF_vars(HooksDone)
  /\ WF_vars(ReturnStep)
  /\ WF_vars(EndPass)
  /\ WF_vars(RunDeferred)

\* The specification of the ancestor lookups: directives of kind A, a
\* directive of kind B hosting one of kind A, and directives that look an
\* ancestor or their parent up, required or optional, before they
\* initialize.
LookupAboveShapes ==
  { Shape(<<StateP("A")>>, <<InitCall("A")>>),
    Shape(<<StateP("A"), StateP("B")>>, <<InitCall("A"), InitCall("B")>>),
    Shape(<<StateP("A")>>, <<ParentCall("A", TRUE), InitCall("A")>>),
    Shape(<<StateP("A")>>, <<ParentCall("A", FALSE), InitCall("A")>>),
    Shape(<<StateP("A")>>, <<AncestorCall("A", TRUE), InitCall("A")>>),
    Shape(<<StateP("B")>>, <<AncestorCall("A", FALSE), InitCall("B")>>) }

CreateLookupAboveElement == CreateElementOf(LookupAboveShapes)

NextLookupAbove ==
  \/ CreateLookupAboveElement
  \/ BeginInit
  \/ CheckStep
  \/ WrapStep
  \/ PublishStep
  \/ HooksDone
  \/ ReturnStep
  \/ InjectProtoAncestor
  \/ InjectProtoParent
  \/ Destroy

SpecLookupAbove == Init /\ [][NextLookupAbove]_vars

\* Initializations that meet an instance without inputs, a throwing hook
\* or an initialized node: a directive like UiButton, which declares no
\* input; one whose first hook throws; one that provides nothing and calls
\* the initializer of the kind.
InitErrorShapes ==
  { Shape(<<StateP("A"), HooksP("A", 1)>>, <<InitCallWith("A", 0)>>),
    Shape(<<StateP("A"), ThrowingHooksP("A", 2)>>, <<InitCall("A")>>),
    Shape(<<>>, <<InitCall("A")>>) }

CreateInitErrorElement == CreateElementOf(InitErrorShapes)

NextInitErrors ==
  \/ CreateInitErrorElement
  \/ BeginInit
  \/ CheckStep
  \/ WrapStep
  \/ PublishStep
  \/ RunHook
  \/ HooksDone
  \/ ReturnStep
  \/ Destroy

SpecInitErrors == Init /\ [][NextInitErrors]_vars

\* Instances with two inputs, as ProtoInteract with the disabled and
\* focusable inputs the hook of UiButton reads: their inputs bound,
\* controlled and reset one by one.
FrameShapes == { Shape(<<StateP("A")>>, <<InitCallWith("A", 2)>>) }

CreateFrameElement == CreateElementWithin(FrameShapes, MaxFrameElems)

NextFrame ==
  \/ CreateFrameElement
  \/ BeginInit
  \/ CheckStep
  \/ WrapStep
  \/ PublishStep
  \/ HooksDone
  \/ ReturnStep
  \/ TemplateChange
  \/ Control
  \/ Reset

SpecFrame == Init /\ [][NextFrame]_vars

\* The state inheritance test (proto-ancestry.ts:1127-1203): directives of
\* kind A that provide and initialize their state and whose hook makes the
\* inheriting effect, with template bindings that change.
InheritShapes ==
  { Shape(<<StateP("A"), InheritHooksP("A")>>, <<InitCall("A")>>) }

CreateInheritElement == CreateElementOf(InheritShapes)

NextInherit ==
  \/ CreateInheritElement
  \/ BeginInit
  \/ CheckStep
  \/ WrapStep
  \/ PublishStep
  \/ RunHook
  \/ HooksDone
  \/ ReturnStep
  \/ TemplateChange
  \/ RunEffect

SpecInherit == Init /\ [][NextInherit]_vars

\* ---------------------------------------------------------------- claims
Initialized(n) == node[n].source # NULL

Registered(a, d) == InSeq(d, node[a].children)

\* C1: a node's state changes at most once, from null to the instance;
\* once non-null it is never changed and never returns to null, whatever
\* operation runs (initializer calls, lookups, hooks, creation, destruction).
C1_StateSetOnce ==
  [][\A n \in NodeIds :
       /\ node'[n].source # node[n].source => node[n].source = NULL
       /\ node[n].source # NULL => node'[n].source = node[n].source]_vars

\* an initialized node has survived a second initializer call or the
\* destruction of its element
C1_Witness ==
  \E n \in NodeIds :
    /\ Initialized(n)
    /\ \/ res \in {"calledTwice", "existing"}
       \/ ~elems[n[1]].alive

\* C2: an initializer call on a node whose state is already non-null ends
\* with the usage error (development mode) or returns the existing handle
\* (production mode); it leaves every state value, every hook log and every
\* descendant set as they were.
C2_SecondCallChangesNothing ==
  [][/\ (cur.pc = "idle" /\ cur'.pc # "idle" /\ node[cur'.target].source # NULL)
        => (\A n \in NodeIds :
              /\ node'[n].source = node[n].source
              /\ node'[n].children = node[n].children
              /\ node'[n].chain = node[n].chain)
           /\ ran' = ran
     /\ (cur.pc = "check" /\ node[cur.target].source # NULL)
        => /\ cur'.pc = "idle"
           /\ res' = IF devMode THEN "calledTwice" ELSE "existing"
           /\ \A n \in NodeIds :
                /\ node'[n].source = node[n].source
                /\ node'[n].children = node[n].children
                /\ node'[n].chain = node[n].chain
           /\ ran' = ran /\ wrapped' = wrapped]_vars

\* a second call has ended: in production mode with the existing handle, in
\* development mode with the error, on a node whose hook has run once
C2_Witness ==
  /\ res \in {"calledTwice", "existing"}
  /\ \E n \in NodeIds : Initialized(n) /\ Len(ran[n]) = 1

\* the nodes attached at element e: the kinds whose state it provides
Attached(n) == n[1] \in Elems /\ Provides(n[1], "state", n[2])

NoDuplicates(s) == \A i, j \in DOMAIN s : s[i] = s[j] => i = j

\* C3: the ancestry chain of every node N holds exactly one entry for
\* every node, of every kind, attached at an element strictly above N on
\* the path to the root, and no other entry, also when nodes of several
\* kinds are attached at one element.
C3_ChainCoversPath ==
  \A n \in NodeIds :
    node[n].inst =>
      /\ NoDuplicates(node[n].chain)
      /\ \A m \in NodeIds :
           InSeq(m, node[n].chain) <=> (Attached(m) /\ StrictlyAbove(m[1], n[1]))

\* C4: the descendant set of every live node A holds an entry for D exactly
\* if D has been created at an element below A and has not been destroyed.
C4_DescendantSetExact ==
  \A a, d \in NodeIds :
    (node[a].inst /\ Alive(a[1])) =>
      (Registered(a, d) <=>
         (node[d].inst /\ Alive(d[1]) /\ StrictlyAbove(a[1], d[1])))

\* C5: destroying nodes removes from the descendant set of every surviving
\* node exactly the entries of the destroyed nodes; every other entry stays,
\* in the same relative order, also an entry of the same kind as a removed one.
C5_DestroyRemovesOwnEntryOnly ==
  [][(Len(elems') = Len(elems) /\ elems' # elems) =>
       LET gone == {n \in NodeIds : Alive(n[1]) /\ ~elems'[n[1]].alive}
       IN  \A a \in NodeIds :
             (Alive(a[1]) /\ elems'[a[1]].alive) =>
               node'[a].children =
                 SelectSeq(node[a].children, LAMBDA d : d \notin gone)]_vars

\* a live node has lost the entry of a destroyed descendant and kept the
\* entry of a live descendant of the same kind
C5_Witness ==
  \E a, d, g \in NodeIds :
    /\ Alive(a[1]) /\ Alive(d[1]) /\ ~Alive(g[1])
    /\ d[2] = g[2]
    /\ Registered(a, d)
    /\ node[g].inst /\ InSeq(a, node[g].chain) /\ ~Registered(a, g)

\* the host instance of the call in progress, and what has happened to it
CallInstance == <<cur.pos, cur.kind>>

RegisteredEverywhere(t) == \A a \in Range(node[t].chain) : Registered(a, t)

RegisteredNowhere(t) == \A a \in NodeIds : ~Registered(a, t)

\* the effects of a first initialization other than the registration, in
\* the order check, wrap, publish, hooks, return
OrderOfOtherEffects ==
  LET t == cur.target
  IN  /\ (cur.pc = "check" /\ ~Initialized(t)) =>
           (CallInstance \notin wrapped /\ ran[t] = <<>>)
      /\ cur.pc = "wrap" =>
           (CallInstance \notin wrapped /\ ~Initialized(t) /\ ran[t] = <<>>)
      /\ cur.pc = "publish" =>
           (CallInstance \in wrapped /\ ~Initialized(t) /\ ran[t] = <<>>)
      /\ cur.pc = "hooks" =>
           (CallInstance \in wrapped /\ node[t].source = CallInstance
            /\ Len(ran[t]) = cur.i)
      /\ cur.pc = "return" =>
           (CallInstance \in wrapped /\ node[t].source = CallInstance
            /\ Len(ran[t]) = Len(cur.hooks))
      /\ cur.pc # "idle" => res = "none"

\* C6 (as claimed): within one initialization the effects occur in the order
\* check, wrap, registration into the ancestors' descendant sets,
\* publication, hooks, return; the entry is in no descendant set before the
\* check has passed and the inputs are wrapped.
C6_RegistrationAfterCheck ==
  /\ OrderOfOtherEffects
  /\ (cur.pc \in {"check", "wrap"} /\ ~Initialized(cur.target)) =>
       RegisteredNowhere(cur.target)
  /\ cur.pc \in {"publish", "hooks", "return"} => RegisteredEverywhere(cur.target)

\* C6 (amended): the registration comes first: the entry is in every
\* ancestor's descendant set when the already-initialized check runs, and
\* stays there; then check, wrap, publication, hooks, return, in this order.
C6_RegistrationFirst ==
  /\ OrderOfOtherEffects
  /\ cur.pc # "idle" => (node[cur.target].inst /\ RegisteredEverywhere(cur.target))

\* a first initialization is at its already-initialized check and its node
\* is already in the descendant set of an ancestor
C6_Witness ==
  /\ cur.pc = "check"
  /\ ~Initialized(cur.target)
  /\ node[cur.target].chain # <<>>
  /\ RegisteredEverywhere(cur.target)

RanHooks(n) == [i \in DOMAIN ran[n] |-> ran[n][i].hook]

\* hook g is contributed at a scope above h's, or at h's scope before h
ContributedBefore(g, h) ==
  \/ StrictlyAbove(g[1], h[1])
  \/ g[1] = h[1] /\ g[2] < h[2]
  \/ g[1] = h[1] /\ g[2] = h[2] /\ g[3] < h[3]

\* C8: once the hook loop of a node's initialization has ended, the hooks
\* run for the node are the hook list visible at its instance, each once,
\* in list order: hooks of enclosing scopes first, root to leaf, hooks of one
\* scope in declaration order; and it stays so (no hook runs again).
C8_HooksRunOnceInOrder ==
  \A n \in NodeIds :
    (Initialized(n) /\ ~(cur.pc = "hooks" /\ cur.target = n)) =>
      LET hs == RanHooks(n)
      IN  /\ hs = InjectHooks(node[n].source[1], n[2])
          /\ \A i, j \in DOMAIN hs : i < j => ContributedBefore(hs[i], hs[j])

\* an initializer is about to return after running hooks of two scopes, two
\* of them of one scope
C8_Witness ==
  /\ cur.pc = "return"
  /\ \E i, j, l \in DOMAIN ran[cur.target] :
       LET hs == RanHooks(cur.target)
       IN  hs[i][1] # hs[j][1] /\ hs[j][1] = hs[l][1] /\ j # l

\* every hook contributed at element e for kind k, in provider order
RECURSIVE HooksContributedFrom(_, _, _)
HooksContributedFrom(e, k, i) ==
  IF i > Len(elems[e].provs) THEN <<>>
  ELSE (IF i \in ProvIdx(e, "hooks", k) THEN HooksOfProvider(e, i) ELSE <<>>)
       \o HooksContributedFrom(e, k, i + 1)

\* C9: the hook list visible at a scope is the list visible at the nearest
\* enclosing scope that contributes hooks of the kind, followed by the hooks
\* contributed at this scope, in the order given: none dropped, none twice.
C9_HookListAccumulates ==
  \A e \in Elems, k \in Kinds :
    LET up == NearestAbove(e, {x \in Elems : Provides(x, "hooks", k)})
        above == IF up = 0 THEN <<>> ELSE InjectHooks(up, k)
    IN  InjectHooks(e, k) = above \o HooksContributedFrom(e, k, 1)

\* the leaves of a configuration, and a (partial) configuration's value there
Leaves == {<<"a", "x">>, <<"a", "y">>, <<"c">>}

Defines(cfg, path) ==
  /\ path[1] \in DOMAIN cfg
  /\ Len(path) = 2 => path[2] \in DOMAIN cfg[path[1]]

LeafOf(cfg, path) ==
  IF Len(path) = 1 THEN cfg[path[1]] ELSE cfg[path[1]][path[2]]

\* the value the last of the contributions cs that defines the leaf gives
\* it, the default's when none does
LastWins(k, cs, path) ==
  LET def == {i \in DOMAIN cs : Defines(cs[i], path)}
  IN  IF def = {} THEN LeafOf(DefaultConfig(k), path)
      ELSE LeafOf(cs[Max(def)], path)

\* the contributions of the elements from the root down to e, root first
RECURSIVE OnPath(_, _)
OnPath(e, k) ==
  IF e = 0 THEN <<>> ELSE OnPath(elems[e].parent, k) \o ContributionsAt(e, k)

ConfigIs(cfg, k, cs) ==
  \A path \in Leaves : Defines(cfg, path) /\ LeafOf(cfg, path) = LastWins(k, cs, path)

\* C10: the configuration resolved at a point merges the default
\* with the contributions of every scope on the path from the root to that
\* point, root-most first, nearest scope last.
C10_MergesWholePath ==
  /\ \A e \in Elems : ConfigIs(InjectConfig(e, "A"), "A", OnPath(e, "A"))
  /\ \A n \in NodeIds :
       (node[n].inst /\ n[2] = "A") => ConfigIs(node[n].config, "A", OnPath(n[1], "A"))

\* C11: for every leaf path the merged configuration has the value of the
\* last of the merged contributions that defines the leaf, the default's
\* when none does; a contribution that defines some keys of a nested object
\* leaves its sibling keys as the default or the other contributions give
\* them; with no contribution the result is the default.
C11_LeafwiseLastWins ==
  /\ \A e \in Elems :
       /\ ConfigIs(InjectConfig(e, "A"), "A", Contributions(e, "A"))
       /\ Contributions(e, "A") = <<>> => InjectConfig(e, "A") = DefaultConfig("A")
  /\ \A n \in NodeIds :
       (node[n].inst /\ n[2] = "A") =>
         ConfigIs(node[n].config, "A", Contributions(n[1], "A"))

\* a node's configuration merges three contributions: they give leaf a.x
\* twice (the later one wins, the last contribution leaves it alone), the
\* last one gives a.y and c
C11_Witness ==
  \E n \in NodeIds :
    /\ Initialized(n)
    /\ Contributions(n[1], "A") = <<CfgGrandparent, CfgParent, CfgSelf>>
    /\ node[n].config = [a |-> [x |-> 2, y |-> 3], c |-> 3]

\* the contributions visible at element e as their sources give them now
ContributionsNow(e, k) ==
  LET at == Nearest(e, ConfigElems(k))
      idx == IF at = 0 THEN <<>> ELSE Sorted(ProvIdx(at, "config", k))
  IN  [j \in DOMAIN idx |-> ContributionFactory(elems[at].provs[idx[j]])]

\* C12 (as claimed): a node's config follows the contributions: after the
\* value of a contribution visible at the node has changed, the node's
\* config is the merge of the default with the new values.
C12_ConfigFollowsContributions ==
  \A n \in NodeIds :
    (node[n].inst /\ Quiet) =>
      node[n].config = DeepMerge(DefaultConfig(n[2]), ContributionsNow(n[1], n[2]))

\* the scope whose contributions a node's config merges
ConfigScope(n) == Nearest(n[1], ConfigElems(n[2]))

\* C12 (amended): a node's config is evaluated once, when the node is
\* created, as the merge of the default with the values the visible
\* contributions have then; a thunk contribution is run once, on the first
\* lookup that reaches it, so nodes of one kind under one contributing scope
\* have equal configs; the config never changes afterwards, whatever
\* becomes of the values the contributions were computed from.
C12_ConfigFixedAtCreation ==
  [][\A n \in NodeIds :
       /\ node[n].inst => node'[n].config = node[n].config
       /\ (~node[n].inst /\ node'[n].inst) =>
            /\ node'[n].config =
                 DeepMerge(DefaultConfig(n[2]), Contributions(n[1], n[2]))
            /\ \A m \in NodeIds :
                 (node[m].inst /\ m[2] = n[2] /\ ConfigScope(m) = ConfigScope(n))
                   => node'[n].config = node[m].config]_vars

\* two nodes under one thunk contribution, one created before and one after
\* the value the thunk reads has changed: both have the config of the first
\* evaluation
C12_Witness ==
  \E n, m \in NodeIds :
    /\ n # m /\ Initialized(n) /\ Initialized(m)
    /\ ConfigScope(n) # 0 /\ ConfigScope(n) = ConfigScope(m)
    /\ \E i \in ProvIdx(ConfigScope(n), "config", "A") : elems[ConfigScope(n)].provs[i].fn
    /\ node[n].config = node[m].config
    /\ node[n].config.c # env

\* the initializer of node n has returned (a later call may be at its check)
Returned(n) ==
  Initialized(n) /\ (cur.target = n => cur.pc \in {"idle", "check"})

\* C13: once a node's initializer has returned, the node's state object has
\* neither set nor update; every handle a consumer obtains for the node (the
\* initializer's return value, a lookup's result, the entries of chains and
\* descendant sets) is that one object.
C13_HandlesImmutable ==
  \A n \in NodeIds : Returned(n) => node[n].pub

\* the initializers of a node and of a descendant have returned; each is an
\* entry of the other's ancestry (chain, descendant set)
C13_Witness ==
  \E n, d \in NodeIds :
    /\ Returned(n) /\ Returned(d)
    /\ Registered(n, d) /\ InSeq(n, node[d].chain)
    /\ res = "handle"

\* a constructor is about to call State.inject
LookupPending == cur.pc = "idle" /\ todo # <<>> /\ Head(todo).op = "lookup"

\* the elements from the calling one to the root that provide kind k's state
ProvidersInScope(k) == {x \in Range(PathUp(Here)) : Provides(x, "state", k)}

\* the node a lookup of kind k finds: that of the deepest providing element
FoundNode(k) == <<Max(ProvidersInScope(k)), k>>

Raised == {"nullInjector", "notInitialized"}

\* C14: State.inject() without the optional flag raises an error whenever no
\* provider of the kind is in scope or the node found has a null state, and
\* returns the handle otherwise; with the optional flag it never raises and
\* returns null exactly when no provider is in scope.
C14_LookupErrors ==
  [][LookupPending =>
       LET k == Head(todo).kind
           none == ProvidersInScope(k) = {}
       IN  IF Head(todo).optional
           THEN /\ res' \notin Raised
                /\ todo' = Tail(todo)
                /\ res' = "null" <=> none
                /\ res' = "handle" <=> ~none
           ELSE IF none \/ node[FoundNode(k)].source = NULL
           THEN res' \in Raised /\ todo' = <<>>
           ELSE res' = "handle" /\ todo' = Tail(todo)]_vars

\* a required lookup has found a provider whose initializer never ran and
\* has raised, while another node is initialized
C14_Witness ==
  /\ res = "notInitialized"
  /\ \E n \in NodeIds : Initialized(n)

\* the node of kind k attached at the nearest element strictly above
\* node n's element that has one; none (null) when there is no such element
NearestNodeAbove(n, k) ==
  LET S == {x \in Elems : StrictlyAbove(x, n[1]) /\ Provides(x, "state", k)}
  IN  IF S = {} THEN NULL ELSE <<Max(S), k>>

\* C15: for every node N, parent is the entry of the nearest ancestor of
\* N's own kind and parentOfType(K) that of the nearest ancestor of kind K,
\* none when there is no such ancestor, whatever nodes of other kinds lie
\* between; a repeated read of parent gives the same entry.
C15_ParentIsNearest ==
  \A n \in NodeIds :
    node[n].inst =>
      /\ ParentRead(n) = NearestNodeAbove(n, n[2])
      /\ \A k \in Kinds : ParentOfType(n, k) = NearestNodeAbove(n, k)

\* C16: the results of a node's ancestor-side queries (parent,
\* parentOfType, ancestors, ancestorsOfType, allAncestors) are the same at
\* every point of its lifetime: no step, whatever node it creates or
\* destroys, changes them.
C16_AncestorQueriesStable ==
  [][\A n \in NodeIds :
       (node[n].inst /\ Alive(n[1]) /\ elems'[n[1]].alive) =>
         /\ ParentRead(n)' = ParentRead(n)
         /\ SameTypeAncestors(n)' = SameTypeAncestors(n)
         /\ AllAncestors(n)' = AllAncestors(n)
         /\ \A k \in Kinds :
              /\ ParentOfType(n, k)' = ParentOfType(n, k)
              /\ AncestorsOfType(n, k)' = AncestorsOfType(n, k)]_vars

\* a live node with an ancestor, whose parent has been read, has seen a
\* sibling created after it and destroyed
C16_Witness ==
  \E n, m \in NodeIds :
    /\ node[n].inst /\ Alive(n[1]) /\ node[n].chain # <<>>
    /\ node[n].cachedParent.set
    /\ node[m].inst /\ ~Alive(m[1])
    /\ m[1] > n[1] /\ elems[m[1]].parent = elems[n[1]].parent

\* node d is a live node created at an element below node n's
LiveDescendant(n, d) ==
  node[d].inst /\ Alive(d[1]) /\ StrictlyAbove(n[1], d[1])

\* C17: at every state a node's children is its descendant set restricted
\* to the node's own kind and childrenOfType(K) the set restricted to kind K,
\* in the set's order; the descendants of the kind at any depth are in it (and
\* nothing else), so a read after a subtree was mounted or unmounted shows
\* the change.
C17_ChildrenAreKindDescendants ==
  \A n \in NodeIds :
    (node[n].inst /\ Alive(n[1])) =>
      /\ SameTypeChildren(n) = SignalValue(<<n, n[2], 0>>)
      /\ \A k \in Kinds :
           LET list == SignalValue(<<n, k, 0>>)
           IN  /\ \A i, j \in DOMAIN list :
                    i < j => \E p, q \in DOMAIN AllChildren(n) :
                               p < q /\ AllChildren(n)[p] = list[i]
                                     /\ AllChildren(n)[q] = list[j]
               /\ \A d \in NodeIds :
                    InSeq(d, list) <=> (d[2] = k /\ LiveDescendant(n, d))

Distance(a, d) == Len(PathUp(d[1])) - Len(PathUp(a[1]))

NearestFirst(a, list) ==
  \A i, j \in DOMAIN list : i < j => Distance(a, list[i]) <= Distance(a, list[j])

\* C19: the lists of children, childrenOfType(K) and allChildren() are
\* ordered from nearest to farthest: a descendant closer to the node never
\* comes after one that is farther away.
C19_NearestToFarthest ==
  \A a \in NodeIds :
    node[a].inst =>
      /\ NearestFirst(a, AllChildren(a))
      /\ NearestFirst(a, SameTypeChildren(a))
      /\ \A k \in Kinds : NearestFirst(a, SignalValue(<<a, k, 0>>))

\* C20: for one node, every call of childrenOfType with one kind returns
\* the same signal, whatever descendants are created or destroyed between
\* the calls: the signal a call has returned for a kind stays the one the
\* next call returns; it is a signal of this node and this kind, so it
\* yields the node's current descendant set restricted to the kind.
C20_SameSignalPerKind ==
  [][\A n \in NodeIds, k \in Kinds :
       /\ node[n].byType[k] # NULL => node'[n].byType[k] = node[n].byType[k]
       /\ node'[n].byType[k] # NULL =>
            /\ node'[n].byType[k][1] = n /\ node'[n].byType[k][2] = k
            /\ LET h == node'[n].byType[k]
               IN  OfKind(node'[h[1]].children, h[2]) = OfKind(node'[n].children, k)]_vars

\* a node has handed out a signal for a kind, has lost a descendant of that
\* kind and has another one, which the signal yields
C20_Witness ==
  \E n, g, d \in NodeIds :
    /\ node[n].byType[d[2]] # NULL
    /\ node[g].inst /\ InSeq(n, node[g].chain) /\ ~Registered(n, g)
    /\ g[2] = d[2]
    /\ SignalValue(node[n].byType[d[2]]) = <<d>>

AllOfKind(list, k) == \A i \in DOMAIN list : list[i][2] = k

\* C21: for every node N of kind K, parent, ancestors() and children hold
\* entries of kind K only, and parentOfType(K2), ancestorsOfType(K2) and
\* childrenOfType(K2) entries of kind K2 only, also when the two kinds are
\* classes of the same name.
C21_QueriesMatchKindOnly ==
  \A n \in NodeIds :
    node[n].inst =>
      /\ ParentRead(n) # NULL => ParentRead(n)[2] = n[2]
      /\ AllOfKind(SameTypeAncestors(n), n[2])
      /\ AllOfKind(SameTypeChildren(n), n[2])
      /\ \A k \in Kinds :
           /\ ParentOfType(n, k) # NULL => ParentOfType(n, k)[2] = k
           /\ AllOfKind(AncestorsOfType(n, k), k)
           /\ AllOfKind(SignalValue(<<n, k, 0>>), k)

\* a node has an ancestor and a descendant of the other kind, which has the
\* same name
C21_Witness ==
  \E n, a, d \in NodeIds :
    /\ node[n].inst
    /\ a[2] # n[2] /\ TypeName(a[2]) = TypeName(n[2]) /\ InSeq(a, AllAncestors(n))
    /\ d[2] # n[2] /\ InSeq(d, AllChildren(n))

\* C22: allAncestors() is ordered nearest-first; ancestors(predicate) and
\* ancestorsOfType(K, predicate) are the entries of allAncestors() of N's
\* kind, respectively kind K, that satisfy the predicate, in the same order.
C22_AncestorsNearestFirst ==
  \A n \in NodeIds :
    node[n].inst =>
      LET all == AllAncestors(n)
      IN  /\ \A i, j \in DOMAIN all :
               i < j => /\ StrictlyAbove(all[j][1], all[i][1])
                        /\ StrictlyAbove(all[i][1], n[1])
          /\ \A S \in SUBSET Range(all) :
               /\ AllAncestorsWhere(n, S) = SelectSeq(all, LAMBDA en : en \in S)
               /\ SameTypeAncestorsWhere(n, S) =
                    SelectSeq(all, LAMBDA en : en[2] = n[2] /\ en \in S)
               /\ \A k \in Kinds :
                    AncestorsOfTypeWhere(n, k, S) =
                      SelectSeq(all, LAMBDA en : en[2] = k /\ en \in S)

\* a node has two ancestors of different kinds
C22_Witness ==
  \E n \in NodeIds :
    /\ Initialized(n)
    /\ Len(AllAncestors(n)) = 2
    /\ AllAncestors(n)[1][2] # AllAncestors(n)[2][2]

\* C23: the value read of a wrapped input is its override while isControlled
\* is true and its template value otherwise; an input that has just been
\* wrapped is uncontrolled and reads its template value.
C23_EffectiveValue ==
  \A i \in WrappedInputs :
    /\ input[i].value = IF input[i].controlled THEN input[i].control
                        ELSE input[i].template
    /\ input[i].op = "wrap" =>
         ~input[i].controlled /\ input[i].value = input[i].template

C23_Witness ==
  \E i, j \in WrappedInputs :
    /\ input[i].op = "wrap"
    /\ input[j].controlled /\ input[j].control # input[j].template

\* C24, as the specification states it: after control(v) the input reads v
\* and is controlled, and both stay so across template changes until reset().
C24_OverrideOutlivesTemplate ==
  [][\A i \in WrappedInputs :
       /\ input'[i].op = "control" =>
            input'[i].controlled /\ input'[i].value = input'[i].control
       /\ input[i].controlled /\ input'[i].op # "reset" =>
            input'[i].controlled /\ input'[i].value = input'[i].control]_vars

\* C24, amended: after control(v) the input reads v and is controlled, and
\* both stay so until reset() is called or the template value changes.
C24_OverrideUntilResetOrTemplate ==
  [][\A i \in WrappedInputs :
       /\ input'[i].op = "control" =>
            input'[i].controlled /\ input'[i].value = input'[i].control
       /\ input[i].controlled /\ input'[i].op \notin {"reset", "release"} =>
            input'[i].controlled /\ input'[i].value = input'[i].control]_vars

C24_Witness ==
  \E i, j \in WrappedInputs :
    /\ i # j
    /\ input[i].op = "control" /\ input[i].control # input[i].template
    /\ input[j].op = "release"

\* C25: a change of the template value while the override is active
\* deactivates the override: the input is uncontrolled afterwards and reads
\* the new template value, and later template changes are read directly.
C25_TemplateChangeReleases ==
  [][\A i \in WrappedInputs :
       input'[i].template # input[i].template =>
         ~input'[i].controlled /\ input'[i].value = input'[i].template]_vars

C25_Witness ==
  \E i \in WrappedInputs :
    /\ input[i].op = "release"
    /\ input[i].control # input[i].template

\* C26: reset() deactivates the override: the input is uncontrolled
\* afterwards and reads the current template value, and follows the later
\* template changes; reset() of an uncontrolled input changes none of its
\* values.
C26_ResetReverts ==
  [][\A i \in WrappedInputs :
       /\ input'[i].op = "reset" =>
            ~input'[i].controlled /\ input'[i].value = input'[i].template
       /\ input'[i].op = "reset" /\ ~input[i].controlled =>
            /\ input'[i].template = input[i].template
            /\ input'[i].control = input[i].control
            /\ input'[i].value = input[i].value
       /\ input[i].op = "reset" /\ input'[i].template # input[i].template =>
            input'[i].value = input'[i].template]_vars

C26_Witness ==
  \E i \in WrappedInputs :
    /\ input[i].op = "reset"
    /\ input[i].control # input[i].template

\* the callbacks run by a step
NewlyFired ==
  {after'.fired[x] : x \in (Len(after.fired) + 1)..Len(after'.fired)}

\* every hook of node n's list has run
HooksRan(n) ==
  node[n].source # NULL /\ Len(ran[n]) = Len(InjectHooks(node[n].source[1], n[2]))

\* C27: once a node is destroyed, none of the callbacks its hooks have
\* scheduled and that have not run yet is run: every callback that runs
\* belongs to a node that is still alive, and the callbacks of a destroyed
\* node are no longer scheduled.
C27_NoCallbackAfterDestroy ==
  [][/\ \A cb \in NewlyFired : elems'[cb.node[1]].alive
     /\ \A x \in DOMAIN after'.queue :
          elems'[after'.queue[x].node[1]].alive]_vars

C27_Witness ==
  /\ after.count > Len(after.fired) + Len(after.queue)
  /\ after.fired # <<>>
  /\ \E x \in DOMAIN after.fired : Alive(after.fired[x].node[1])

C29_ResolutionIsPure ==
  /\ [](\A k \in Kinds : defaults[k] = DefaultConfig(k))
  /\ [][/\ \A e \in DOMAIN elems : elems'[e].provs = elems[e].provs
        /\ \A e \in DOMAIN contrib : \A i \in DOMAIN contrib[e] :
             contrib[e][i].done => contrib'[e][i] = contrib[e][i]
        /\ \A n \in NodeIds :
             (~node[n].inst /\ node'[n].inst) =>
               node'[n].config =
                 DeepMerge(DefaultConfig(n[2]), Contributions(n[1], n[2]))]_vars

\* a node whose config merges contributions, and a node created later, at
\* which no contribution is visible, with the default as its config
C29_Witness ==
  \E n, m \in NodeIds :
    /\ node[n].inst /\ node[m].inst
    /\ n[2] = m[2] /\ n[1] < m[1]
    /\ Contributions(n[1], n[2]) # <<>>
    /\ node[n].config # DefaultConfig(n[2])
    /\ Contributions(m[1], m[2]) = <<>>
    /\ node[m].config = DefaultConfig(m[2])

\* C30: two distinct nodes, of one kind or of two, have different ids, and
\* the id of a node never changes.
C30_IdsUniqueAndFixed ==
  /\ [](\A n, m \in NodeIds :
          (node[n].inst /\ node[m].inst /\ n # m) =>
            node[n].protoId # node[m].protoId)
  /\ [][\A n \in NodeIds :
          node[n].inst => node'[n].protoId = node[n].protoId]_vars

\* three nodes, two of them of one kind and two of them on one element, one
\* of them destroyed
C30_Witness ==
  \E n, m, o \in NodeIds :
    /\ node[n].inst /\ node[m].inst /\ node[o].inst
    /\ n[1] = m[1] /\ n[2] # m[2]
    /\ o[1] # n[1] /\ o[2] = n[2]
    /\ ~Alive(o[1]) /\ Alive(n[1])

\* C31: a lookup of a node's state before its initializer has run does not
\* prevent the initialization: the first initializer call that reaches the
\* publication of a node whose state is null publishes the state.
C31_LookupThenInitPublishes ==
  [][(cur.pc = "publish" /\ node[cur.target].source = NULL) =>
       /\ node'[cur.target].source = <<cur.pos, cur.kind>>
       /\ res' # "typeError"]_vars

\* node n is instantiated and its element is alive
Live(n) == node[n].inst /\ Alive(n[1])

\* C32: for two live nodes a and d, the entry of d is in the descendant set
\* of a if and only if the entry of a is in the ancestry chain of d; no
\* descendant set holds two entries of one node.
C32_SetsMirrorChains ==
  /\ \A a, d \in NodeIds :
       (Live(a) /\ Live(d)) => (Registered(a, d) <=> InSeq(a, node[d].chain))
  /\ \A a \in NodeIds :
       \A i, j \in DOMAIN node[a].children :
         i # j => node[a].children[i] # node[a].children[j]

\* a live node with two live descendants registered, after a third one has
\* been destroyed, and a live node on its element that it is not registered
\* with
C32_Witness ==
  \E a, d, e, x, o \in NodeIds :
    /\ Live(a) /\ Live(d) /\ Live(e) /\ Live(o)
    /\ d # e
    /\ Registered(a, d) /\ Registered(a, e)
    /\ node[x].inst /\ ~Alive(x[1]) /\ InSeq(a, node[x].chain)
    /\ o[1] = d[1] /\ o # d /\ ~Registered(o, d)

\* C33: while no constructor is running, a node whose entry is in a
\* descendant set or in an ancestry chain has a non-null state: a node that
\* is provided and never initialized is in no set and in no chain.
C33_EntriesAreInitialized ==
  Quiet =>
    \A a, d \in NodeIds :
      /\ (node[a].inst /\ Registered(a, d)) => Initialized(d)
      /\ (node[d].inst /\ InSeq(a, node[d].chain)) => Initialized(a)

\* C34: the scope-based lookup and the chain-based lookup agree: what
\* injectProtoAncestor(K) or injectProtoParent(K) has returned to a
\* constructor of an element is the state that parentOfType(K) of every node
\* of that element gives (none when there is none), also when nodes of
\* several kinds share an element.
C34_LookupsAgree ==
  found.op # "none" =>
    \A n \in NodeIds :
      (node[n].inst /\ n[1] = found.at) =>
        ParentOfType(n, found.kind) = found.state

\* the elements strictly above e that provide the state of kind k
ProvidersAbove(e, k) ==
  {x \in Elems : StrictlyAbove(x, e) /\ Provides(x, "state", k)}

\* C35: injectProtoAncestor(K) without optional raises its error when no
\* element strictly above the caller provides a state of kind K (a provider
\* on the caller's own element does not count); with optional it returns
\* null then and never raises; a state it returns is that of the nearest
\* such element.
C35_AncestorLookupErrors ==
  [][(cur.pc = "idle" /\ todo # <<>> /\ Head(todo).op = "ancestor") =>
       LET k == Head(todo).kind
           above == ProvidersAbove(Here, k)
       IN  IF above = {}
           THEN /\ res' = IF Head(todo).optional THEN "null"
                          ELSE "ancestorNotFound"
                /\ found'.state = NULL
           ELSE /\ res' = "handle"
                /\ found'.state[2] = k
                /\ found'.state[1] \in above
                /\ \A x \in above : InSeq(x, PathUp(found'.state[1]))]_vars

\* a required lookup has raised the error although another element of the
\* tree, not above the caller, provides the kind
C35_Witness ==
  /\ res = "ancestorNotFound"
  /\ found.op = "ancestor" /\ found.state = NULL
  /\ \E e \in Elems :
       /\ e # found.at
       /\ Provides(e, "state", found.kind)
       /\ ProvidersAbove(e, found.kind) = {}
       /\ elems[e].provs = <<StateP("A")>>

\* C36: the initializer publishes only into the state provided on the
\* caller's own element: called on an element without a state provider of
\* its kind, it sets the state of no node of an element above.
C36_PublishesAtOwnElement ==
  [][\A n \in NodeIds :
       node'[n].source # node[n].source => n[1] = cur.pos]_vars

\* the instances initState has found no input signal on
NoInputs(i) ==
  i \in wrapped /\ \A x \in 1..MaxInputs : <<i, x>> \notin WrappedInputs

\* C39: initializing an instance that has no input fields is not an error,
\* in development mode and in production mode: the call goes on after the
\* search for inputs, and unless a hook throws it sets the state to the
\* instance, runs every hook of the list and returns the handle; the warning
\* is issued in development mode and only there.
C39_NoInputsIsNoError ==
  [][cur.pc \notin {"idle", "check"} /\ cur.inputs = 0 =>
       /\ cur.pc = "wrap" =>
            /\ cur'.pc # "idle"
            /\ res' = res
            /\ (<<cur.pos, cur.kind>> \in warned') = devMode
       /\ cur'.pc = "idle" /\ res' # "hookError" =>
            /\ res' = "handle"
            /\ node'[cur.target].source = <<cur.pos, cur.kind>>
            /\ [x \in DOMAIN ran'[cur.target] |-> ran'[cur.target][x].hook]
                 = cur.hooks]_vars

C39_Witness ==
  \E i \in warned :
    /\ NoInputs(i)
    /\ res = "handle"
    /\ node[i].source = i
    /\ Len(ran[i]) > 0

\* the nodes whose initialization a throwing hook has ended
Failed(n) == ran[n] # <<>> /\ Throws(ran[n][Len(ran[n])].hook)

\* C38: when a hook throws during a node's initialization, the call ends
\* there with the node's state set and every node's chain and descendant
\* set as they were; from then on the state stays set, no further hook runs
\* for the node, and an initializer call that reaches the node is answered
\* as a second initialization (the error in development mode, the existing
\* handle in production mode).
C38_HookFailureKeepsState ==
  [][/\ cur.pc = "hooks" /\ cur.i < Len(cur.hooks)
          /\ Throws(HookAt(cur.hooks, cur.i)) =>
            /\ cur'.pc = "idle"
            /\ ran'[cur.target][Len(ran'[cur.target])].hook
                 = HookAt(cur.hooks, cur.i)
            /\ node' = node
            /\ Initialized(cur.target)
     /\ \A n \in NodeIds :
          Failed(n) =>
            /\ ran'[n] = ran[n]
            /\ Initialized(n) /\ node'[n].source = node[n].source
     /\ cur.pc = "check" /\ Failed(cur.target) =>
          /\ cur'.pc = "idle"
          /\ res' = IF devMode THEN "calledTwice" ELSE "existing"]_vars

C38_Witness ==
  \E n \in NodeIds :
    /\ Failed(n)
    /\ Len(ran[n]) < Len(InjectHooks(n[1], n[2]))
    /\ RegisteredEverywhere(n) /\ node[n].chain # <<>>
    /\ res = "calledTwice"
    /\ elems[Here].provs = <<>> /\ StateScope(Here, n[2]) = n[1]

\* the inputs a step writes
Written == {i \in InputIds : input'[i] # input[i]}

\* C40: control() or reset() on one input of one node changes nothing but
\* that input's override flag, override value and the value read of it: its
\* template value, every other input of the same instance, every input of
\* every other node, and every chain and descendant set are as before.
\* (The steps of control() and reset() are those that, with no constructor
\* running, write inputs by these operations only.)
C40_ControlTouchesOneInput ==
  [][/\ Quiet /\ elems' = elems
     /\ \A w \in Written : input'[w].op \in {"control", "reset"}
     =>
       /\ \A i \in Written :
            /\ Written = {i}
            /\ input'[i].template = input[i].template
       /\ \A n \in NodeIds :
            /\ node'[n].chain = node[n].chain
            /\ node'[n].children = node[n].children]_vars

C40_Witness ==
  \E i, j, m \in WrappedInputs :
    /\ i[1] = j[1] /\ i # j /\ m[1] # i[1]
    /\ input[i].op = "control" /\ input[i].control # input[i].template
    /\ input[j].op = "reset" /\ input[j].template
    /\ ~input[m].controlled
    /\ node[m[1]].chain # <<>>

\* the reactive effects have settled: no constructor runs and no effect is
\* due
Settled == Quiet /\ effects.dirty = {}

\* C37: with the inheriting hook on every node of the kind, whenever the
\* effects have settled, after whatever template changes, every node that
\* has a parent of its kind is controlled and reads the value its parent
\* reads, whatever its own template value.
C37_InheritsOnceSettled ==
  Settled =>
    \A n \in NodeIds :
      Initialized(n) /\ ParentOfType(n, n[2]) # NULL =>
        /\ input[<<node[n].source, 1>>].controlled
        /\ Disabled(input, n) = Disabled(input, ParentOfType(n, n[2]))

====
